---------------------------- MODULE Spec2Model ----------------------------
(***************************************************************************)
(* Model of the DRSVMS backend core: plate normalisation and matching      *)
(* (PlateValidator), the vehicle registry (VehicleService), the violation  *)
(* ledger (ViolationService) and the payment orchestrator (PaymentService).*)
(*                                                                         *)
(* Strings are sequences of one-character strings.  Database tables are    *)
(* sequences of rows; a row's id is its index.  Every request is a context *)
(* in the bag `inflight`; a handler is cut into the segments that other    *)
(* requests can interleave with: the gateway round trip of the payment     *)
(* handlers, and in createViolation the vehicle resolution that runs       *)
(* outside the transaction.  Writes of a transaction become visible at its *)
(* commit; Model.save() writes only the attributes that changed.           *)
(***************************************************************************)
EXTENDS Integers, Sequences, FiniteSets, Bags, TLC

(***************************************************************************)
(* Characters                                                              *)
(***************************************************************************)
UpperLetters ==
  <<"A","B","C","D","E","F","G","H","I","J","K","L","M",
    "N","O","P","Q","R","S","T","U","V","W","X","Y","Z">>

LowerLetters ==
  <<"a","b","c","d","e","f","g","h","i","j","k","l","m",
    "n","o","p","q","r","s","t","u","v","w","x","y","z">>

Letters == {UpperLetters[i] : i \in 1..26}

Digits == {"0","1","2","3","4","5","6","7","8","9"}

\* the characters of \\s that the plates of the model contain
Whitespace == {" ", "\t"}

\* String.prototype.toUpperCase on one character
toUpperCase(c) ==
  IF \E i \in 1..26 : LowerLetters[i] = c
    THEN UpperLetters[CHOOSE i \in 1..26 : LowerLetters[i] = c]
    ELSE c

\* s.slice(a, b) with 0-based a (inclusive) and b (exclusive)
slice(s, a, b) == SubSeq(s, a + 1, IF b <= Len(s) THEN b ELSE Len(s))

(***************************************************************************)
(* Regular expressions of the plate formats: a pattern is a sequence of    *)
(* segments, each a character class repeated between lo and hi times,      *)
(* anchored at both ends.                                                  *)
(***************************************************************************)
Seg(cls, lo, hi) == [cls |-> cls, lo |-> lo, hi |-> hi]

Lit(c) == Seg({c}, 1, 1)

RECURSIVE MatchFrom(_, _, _, _)
\* does s, from position i (1-based), match the segments k.. of pat?
MatchFrom(s, i, pat, k) ==
  IF k > Len(pat) THEN i = Len(s) + 1
  ELSE \E n \in pat[k].lo .. pat[k].hi :
         /\ i + n - 1 <= Len(s)
         /\ \A j \in i .. (i + n - 1) : s[j] \in pat[k].cls
         /\ MatchFrom(s, i + n, pat, k + 1)

test(pat, s) == MatchFrom(s, 1, pat, 1)

NIGERIAN_PLATE_FORMATS ==
  << [pattern  |-> <<Seg(Letters,3,3), Lit("-"), Seg(Digits,3,3), Lit("-"), Seg(Letters,2,2)>>,
      category |-> "private"],
     [pattern  |-> <<Seg(Letters,2,3), Lit("-"), Seg(Digits,3,3), Lit("-"), Seg(Letters,1,2)>>,
      category |-> "private"],
     [pattern  |-> <<Seg(Letters,3,3), Lit("-"), Seg(Digits,3,3), Lit("-"), Seg(Letters,2,2)>>,
      category |-> "commercial"],
     [pattern  |-> <<Seg(Letters,3,6), Lit("-"), Seg(Digits,3,3)>>,
      category |-> "government"],
     [pattern  |-> <<Lit("C"), Lit("D"), Lit("-"), Seg(Digits,3,3), Lit("-"), Seg(Letters,1,1)>>,
      category |-> "diplomatic"],
     [pattern  |-> <<Lit("M"), Lit("I"), Lit("L"), Lit("-"), Seg(Digits,3,3)>>,
      category |-> "military"],
     [pattern  |-> <<Seg(Letters,2,2), Seg(Digits,3,3), Seg(Letters,2,2)>>,
      category |-> "private"] >>

\* The 400 two-letter codes of the table: row A has its own second letters,
\* the nineteen other rows run from xA to xT.
NIGERIAN_STATE_CODES ==
  {<<"A", c>> : c \in {"A","B","D","E","H","J","K","L","M","N",
                       "O","P","R","S","T","U","W","X","Y","Z"}}
  \cup
  {<<r, c>> : r \in {"B","C","D","E","F","G","H","J","K","L",
                     "M","N","O","P","R","S","T","Y","Z"},
              c \in {"A","B","C","D","E","F","G","H","I","J",
                     "K","L","M","N","O","P","Q","R","S","T"}}

(***************************************************************************)
(* PlateValidator                                                          *)
(***************************************************************************)
RECURSIVE StripUpper(_)
\* plateNumber.replace(/\s+/g, '').toUpperCase()
StripUpper(s) ==
  IF s = <<>> THEN <<>>
  ELSE IF Head(s) \in Whitespace THEN StripUpper(Tail(s))
  ELSE <<toUpperCase(Head(s))>> \o StripUpper(Tail(s))

\* the hyphens put in without the test of the pattern
hyphenateAlways(normalized, pattern, a, b) ==
  slice(normalized, 0, a) \o <<"-">> \o slice(normalized, a, b) \o <<"-">>
    \o slice(normalized, b, Len(normalized))

\* if (pattern.test(normalized))
\*   normalized = `${normalized.slice(0, a)}-${normalized.slice(a, b)}-${normalized.slice(b)}`
hyphenate(normalized, pattern, a, b) ==
  IF test(pattern, normalized)
    THEN slice(normalized, 0, a) \o <<"-">> \o slice(normalized, a, b) \o <<"-">>
           \o slice(normalized, b, Len(normalized))
    ELSE normalized

\* whitespace stripped and upper case, with no hyphens put in
withoutHyphens(plateNumber) == StripUpper(plateNumber)

\* the legacy form AB123CD first, then ABC123DE
normalizePlateNumber(plateNumber) ==
  IF plateNumber = <<>> THEN <<>>
  ELSE hyphenate(hyphenate(StripUpper(plateNumber),
                           <<Seg(Letters,2,2), Seg(Digits,3,3), Seg(Letters,2,2)>>, 2, 5),
                 <<Seg(Letters,3,3), Seg(Digits,3,3), Seg(Letters,2,2)>>, 3, 6)

\* plateNumber.match(/^([A-Z]{2})/): the two leading letters, or <<>> for null
extractStateCode(plateNumber) ==
  IF Len(plateNumber) >= 2 /\ plateNumber[1] \in Letters /\ plateNumber[2] \in Letters
    THEN slice(plateNumber, 0, 2)
    ELSE <<>>

\* the codes of the first row of the table only
firstRowStateCode(stateCode) == stateCode \in NIGERIAN_STATE_CODES /\ stateCode[1] = "A"

isValidStateCode(stateCode) == stateCode \in NIGERIAN_STATE_CODES

\* stateCode && !this.isValidStateCode(stateCode)
stateCodeRejected(stateCode) == stateCode # <<>> /\ ~isValidStateCode(stateCode)

RECURSIVE ValidateFrom(_, _, _)
\* the for-loop of validatePlateNumber from format k on, with the errors so far
ValidateFrom(normalized, k, errors) ==
  IF k > Len(NIGERIAN_PLATE_FORMATS)
    THEN [isValid |-> FALSE, format |-> 0, normalized |-> normalized,
          errors |-> errors \o <<"Invalid Nigerian plate number format", "Expected formats">>]
  ELSE IF test(NIGERIAN_PLATE_FORMATS[k].pattern, normalized)
    THEN IF stateCodeRejected(extractStateCode(normalized))
           THEN ValidateFrom(normalized, k + 1, errors \o <<"Invalid state code">>)
           ELSE [isValid |-> TRUE, format |-> k, normalized |-> normalized, errors |-> <<>>]
  ELSE ValidateFrom(normalized, k + 1, errors)

\* validatePlateNumber after "const normalized = this.normalizePlateNumber(plateNumber)"
validateNormalized(normalized) ==
  IF normalized = <<>>
    THEN [isValid |-> FALSE, format |-> 0, normalized |-> normalized,
          errors |-> <<"Plate number is required">>]
    ELSE ValidateFrom(normalized, 1, <<>>)

\* format is the index into NIGERIAN_PLATE_FORMATS, 0 when undefined
validatePlateNumber(plateNumber) == validateNormalized(normalizePlateNumber(plateNumber))

Min2(a, b) == IF a <= b THEN a ELSE b

Min3(a, b, c) == Min2(a, Min2(b, c))

RECURSIVE LevRow(_, _, _, _, _)
RECURSIVE LevCell(_, _, _, _, _)
\* cells i..Len(str1) of matrix row j, given the previous row and the cell to the left
LevRow(str1, ch, prev, left, i) ==
  IF i > Len(str1) THEN <<>>
  ELSE LevCell(str1, ch, prev,
               Min3(left + 1, prev[i + 1] + 1, prev[i] + (IF str1[i] = ch THEN 0 ELSE 1)),
               i)

\* matrix[j][i] = cell, then the cells to its right
LevCell(str1, ch, prev, cell, i) == <<cell>> \o LevRow(str1, ch, prev, cell, i + 1)

RECURSIVE LevRows(_, _, _, _)
\* matrix[str2.length], built row by row; a row is indexed 1..Len(str1)+1
LevRows(str1, str2, prev, j) ==
  IF j > Len(str2) THEN prev
  ELSE LevRows(str1, str2, <<j>> \o LevRow(str1, str2[j], prev, j, 1), j + 1)

editDistance(str1, str2) ==
  LevRows(str1, str2, [i \in 1 .. (Len(str1) + 1) |-> i - 1], 1)[Len(str1) + 1]

\* the similarity taken over the length of the second string
similarityOverTarget(str1, str2) ==
  IF Len(str2) = 0 THEN [num |-> 0, den |-> 1]
  ELSE [num |-> Len(str2) - editDistance(str1, str2), den |-> Len(str2)]

\* the similarity as the fraction num/den
calculateSimilarity(str1, str2) ==
  IF Len(str1) = 0 THEN (IF Len(str2) = 0 THEN [num |-> 1, den |-> 1] ELSE [num |-> 0, den |-> 1])
  ELSE IF Len(str2) = 0 THEN [num |-> 0, den |-> 1]
  ELSE LET maxLength == IF Len(str1) >= Len(str2) THEN Len(str1) ELSE Len(str2)
       IN [num |-> maxLength - editDistance(str1, str2), den |-> maxLength]

\* a >= b for fractions with positive denominators
FracGeq(a, b) == a.num * b.den >= b.num * a.den

\* threshold in tenths (7 is 0.7)
\* { isMatch: similarity >= threshold, similarity }
matchResult(similarity, threshold) ==
  [isMatch |-> FracGeq(similarity, [num |-> threshold, den |-> 10]),
   similarity |-> similarity]

\* similarity > threshold - 0.2 on doubles. For the thresholds 0.3, 0.6 and
\* 0.7 the difference is the double just below the exact value (0.7 - 0.2 is
\* 0.49999999999999994), so a similarity equal to the exact value is above
\* it; for the other thresholds the comparison is the exact one.
suggestionsDue(similarity, threshold) ==
  \/ similarity.num * 10 > (threshold - 2) * similarity.den
  \/ /\ threshold \in {3, 6, 7}
     /\ similarity.num * 10 = (threshold - 2) * similarity.den

\* ocrMappings: the characters that have an entry, and their replacements
ocrMappings ==
  [c \in {"0","O","I","1","5","S","B","8","6","G","2","Z"} |->
     CASE c = "0" -> <<"O","D","Q">>
       [] c = "O" -> <<"0","D","Q">>
       [] c = "I" -> <<"1","L","T">>
       [] c = "1" -> <<"I","L","T">>
       [] c = "5" -> <<"S","G">>
       [] c = "S" -> <<"5","G">>
       [] c = "B" -> <<"8","R">>
       [] c = "8" -> <<"B","R">>
       [] c = "6" -> <<"G","C">>
       [] c = "G" -> <<"6","C">>
       [] c = "2" -> <<"Z","R">>
       [] c = "Z" -> <<"2","R">>]

\* the suggestions pushed for position i (1-based) of the plate
suggestionsAt(plateNumber, i) ==
  IF plateNumber[i] \in DOMAIN ocrMappings
    THEN [k \in 1 .. Len(ocrMappings[plateNumber[i]]) |->
            [plateNumber EXCEPT ![i] = ocrMappings[plateNumber[i]][k]]]
    ELSE <<>>

RECURSIVE suggestionsFrom(_, _)
\* the loop of generateOCRSuggestions from position i on
suggestionsFrom(plateNumber, i) ==
  IF i > Len(plateNumber) THEN <<>>
  ELSE suggestionsAt(plateNumber, i) \o suggestionsFrom(plateNumber, i + 1)

RECURSIVE unique(_, _)
\* [...new Set(list)]: the first occurrence of each element, in order
unique(list, seen) ==
  IF list = <<>> THEN <<>>
  ELSE IF Head(list) \in seen THEN unique(Tail(list), seen)
  ELSE <<Head(list)>> \o unique(Tail(list), seen \cup {Head(list)})

generateOCRSuggestions(plateNumber) == unique(suggestionsFrom(plateNumber, 1), {})

\* the result of fuzzyMatchPlate for the normalized input and its similarity
\* to the normalized target
matchWithSuggestions(normalizedInput, similarity, threshold) ==
  matchResult(similarity, threshold) @@
  [suggestions |-> slice(IF suggestionsDue(similarity, threshold)
                           THEN generateOCRSuggestions(normalizedInput)
                           ELSE <<>>,
                         0, 5)]

\* the result for the two normalized plates
matchNormalized(normalizedInput, normalizedTarget, threshold) ==
  matchWithSuggestions(normalizedInput,
                       calculateSimilarity(normalizedInput, normalizedTarget),
                       threshold)

fuzzyMatchPlate(inputPlate, targetPlate, threshold) ==
  matchNormalized(normalizePlateNumber(inputPlate), normalizePlateNumber(targetPlate),
                  threshold)

\* format is the index into NIGERIAN_PLATE_FORMATS
categoryOf(validation) ==
  IF validation.isValid /\ validation.format # 0
    THEN NIGERIAN_PLATE_FORMATS[validation.format].category
    ELSE "unknown"

getPlateCategory(plateNumber) == categoryOf(validatePlateNumber(plateNumber))

(***************************************************************************)
(* Bounds of the model                                                     *)
(***************************************************************************)
MaxInflight == 2

MaxVehicles == 2

MaxViolations == 2

MaxPayments == 2

MaxPoints == 14

MaxBatch == 2

\* audit notes kept per violation
MaxNotes == 1

(***************************************************************************)
(* Inputs                                                                  *)
(***************************************************************************)
ABC123DE == <<"A","B","C","-","1","2","3","-","D","E">>

\* plates as officers type them: the seeded vehicle in two spellings, an OCR
\* misreading of it, a plate not yet on file and a string of no known format
abc123de == <<"a","b","c","1","2","3","d","e">>

ABCl23DE == <<"A","B","C","-","l","2","3","-","D","E">>

LAG456XY == <<"L","A","G","-","4","5","6","-","X","Y">>

INVALID == <<"I","N","V","A","L","I","D">>

RawPlates == {ABC123DE, abc123de, ABCl23DE, LAG456XY, INVALID}

\* the plates adjustPoints is asked about: the seeded vehicle and one not on file
AdjustedPlates == {abc123de, INVALID}

\* the plates on file when a lookup is made on its own, in the order of
\* their registration: plates at similarity 0.9 to 0.5 of the misreading
\* ABC-l23-DE, and one that is far from it
StoredPlateList ==
  <<<<"A","B","C","-","1","2","3","-","D","E">>,
    <<"A","B","C","-","7","2","3","-","D","E">>,
    <<"A","B","C","-","1","2","3","-","D","F">>,
    <<"A","B","D","-","1","2","3","-","D","E">>,
    <<"A","B","C","-","1","2","4","-","D","F">>,
    <<"A","B","C","-","1","2","4","-","E","F">>,
    <<"A","B","C","-","1","5","4","-","E","F">>,
    <<"L","A","G","-","4","5","6","-","X","Y">>>>

\* every plate a request or a row of the model carries
Plates ==
  RawPlates \cup {StoredPlateList[k] : k \in 1 .. Len(StoredPlateList)} \cup {normalizePlateNumber(p) : p \in RawPlates}

\* PlateValidator.normalizePlateNumber and validatePlateNumber, computed once
\* per plate of the model
PlateTable ==
  [p \in Plates |-> [normalized |-> normalizePlateNumber(p),
                     validation |-> validatePlateNumber(p)]]

\* PlateValidator.fuzzyMatchPlate(input, target, 0.6), computed once per pair
MatchTable ==
  [inputPlate \in Plates |-> [targetPlate \in Plates |-> fuzzyMatchPlate(inputPlate, targetPlate, 6)]]

\* the catalogue: DOC002, DOC003 and a deactivated PRK001 (amounts in thousands)
ViolationTypes ==
  << [fineAmount |-> 10, points |-> 2, isActive |-> TRUE],
     [fineAmount |-> 8,  points |-> 2, isActive |-> TRUE],
     [fineAmount |-> 5,  points |-> 1, isActive |-> FALSE] >>

\* ids a request may name: the catalogue and one id that does not exist
RequestedTypeIds == (1 .. Len(ViolationTypes)) \cup {9}

SeqsUpTo(S, n) == UNION {[1..k -> S] : k \in 1..n}

\* the lists of type ids a request names: active types, a deactivated one,
\* one that does not exist, one id twice
TypeIdLists ==
  {ids \in SeqsUpTo(RequestedTypeIds, MaxBatch) :
     /\ ids[1] = 1 \/ ids = <<2>>
     /\ \A k \in 1..(Len(ids) - 1) : ids[k] <= ids[k + 1]}

\* the lists of violation ids a payment request names
ViolationIdLists ==
  {ids \in SeqsUpTo(1 .. (MaxViolations + 1), MaxBatch) :
     \A k \in 1..(Len(ids) - 1) : ids[k] < ids[k + 1]}

Gateways == {"paystack", "flutterwave", "interswitch"}

SupportedGateways == {"paystack", "flutterwave"}

PointDeltas == {-20, 10}

RefundAmounts == {8, 10, 11}

\* the webhook payloads: data.reference, data.tx_ref and data.id, each of them
\* present or missing
WebhookPayloads == [reference : 0 .. 2, tx_ref : 0 .. 2, id : {"", "77"}]

\* the plates given to the validator: a letter part, digits and a suffix,
\* joined by nothing, a blank or a hyphen. Among them are the examples of the
\* format table (ABC-123-DE, AB-123-CD, COM-123-XY, ABUJA-123, CD-123-A,
\* MIL-123, AB123CD), the test inputs of testPlateValidation (ab123cd,
\* INVALID, LA-456-ST), plates whose two leading letters are no state code
\* (XQ-123-A, IKEJA-123) and the empty string.
LetterParts ==
  {<<"a","b">>, <<"A","B">>, <<"a","\t","B">>, <<"a","b","c">>, <<"A","B","C">>, <<"A"," ","b","C">>, <<"L","A">>, <<"C","O","M">>, <<"C","D">>, <<"M","I","L">>, <<"A","B","U","J","A">>, <<"I","K","E","J","A">>, <<"I","N">>, <<"x","q">>, <<>>}

Separators == {<<>>, <<" ">>, <<"-">>}

DigitParts == {<<"1","2","3">>, <<"4","5","6">>, <<"1","2">>, <<>>}

SuffixParts ==
  {<<>>, <<"A">>, <<"c","d">>, <<"C","D">>, <<"D","E">>, <<"S","T">>, <<"X","Y">>, <<"V","A","L","I","D">>}

PlateInputs ==
  {l \o s1 \o d \o s2 \o t :
     l \in LetterParts, s1 \in Separators, d \in DigitParts, s2 \in Separators,
     t \in SuffixParts}

\* the plates compared by fuzzyMatchPlate, as input and as target
FuzzyPlates ==
  {<<"A","B","C","-","1","2","3","-","D","E">>,
   <<"a","b","c","1","2","3","d","e">>,
   <<"A","B","C","-","l","2","3","-","D","E">>,
   <<"A","B","C","-","I","2","3","-","D","E">>,
   <<"A","B","C","-","4","5","6","-","D","E">>,
   <<"A","B","C","-","4","5","6","-","X","Y">>,
   <<"L","A","G","-","4","5","6","-","X","Y">>,
   <<"L","A","-","4","5","6","-","S","T">>,
   <<"A","B","1","2","3","C","D">>,
   <<"A","8","C","-","1","2","3","-","D","E">>,
   <<"A","B","C","-","1","2","3">>,
   <<"M","I","L","-","1","2","3">>,
   <<"I","N","V","A","L","I","D">>,
   <<"A">>,
   <<>>,
   <<" ">>,
   <<"O","0","I","1">>}

\* 0.5 (findSimilarPlateNumbers), 0.6 (lookupByPlateNumber) and the default 0.7
Thresholds == {5, 6, 7}

VARIABLES
  vehicleOwners,  \* table vehicle_owners
  violations,     \* table violations
  payments,       \* table payments
  inflight,       \* bag of the requests that are suspended inside a handler
  response        \* outcome of the handler segment that ran last

vars == <<vehicleOwners, violations, payments, inflight, response>>

database == <<vehicleOwners, violations, payments>>

(***************************************************************************)
(* Helpers on tables                                                       *)
(***************************************************************************)
Ids(table) == 1 .. Len(table)

RECURSIVE Ascending(_)
\* the elements of a finite set of integers in ascending order
Ascending(S) ==
  IF S = {} THEN <<>>
  ELSE LET m == CHOOSE x \in S : \A y \in S : x <= y
       IN <<m>> \o Ascending(S \ {m})

Range(s) == {s[i] : i \in 1..Len(s)}

RECURSIVE Sum(_, _)
Sum(f, s) == IF s = <<>> THEN 0 ELSE f[Head(s)] + Sum(f, Tail(s))

Running(op) == [op |-> op, status |-> 0]

\* the error a handler answers with: createError(message, status)
Failed(op, status, message) == [op |-> op, status |-> status, message |-> message]

(***************************************************************************)
(* VehicleService                                                          *)
(***************************************************************************)
\* VehicleOwner.findOne({ where: { plateNumber } }): the id, 0 for null
findOneByPlate(owners, plateNumber) ==
  IF \E i \in Ids(owners) : owners[i].plateNumber = plateNumber
    THEN CHOOSE i \in Ids(owners) : owners[i].plateNumber = plateNumber
    ELSE 0

RECURSIVE InsertDesc(_, _, _)
\* stable insertion of id x into a list sorted by descending similarity
InsertDesc(sorted, x, sim) ==
  IF sorted = <<>> THEN <<x>>
  ELSE IF FracGeq(sim[Head(sorted)], sim[x])
    THEN <<Head(sorted)>> \o InsertDesc(Tail(sorted), x, sim)
    ELSE <<x>> \o sorted

RECURSIVE SortDesc(_, _)
\* Array.prototype.sort((a, b) => b.match.similarity - a.match.similarity)
SortDesc(ids, sim) ==
  IF ids = <<>> THEN <<>>
  ELSE InsertDesc(SortDesc(SubSeq(ids, 1, Len(ids) - 1), sim), ids[Len(ids)], sim)

\* lines 182-206: filter on isMatch, sort by similarity, keep the best five
fuzzyMatches(owners, match) ==
  slice(SortDesc(Ascending({i \in Ids(owners) : match[i].isMatch}),
                 [i \in Ids(owners) |-> match[i].similarity]),
        0, 5)

\* a lookup that takes the fuzzy matches whenever the exact search found none
lookupFuzzyFirst(owners, validation, vehicle, matches) ==
  IF vehicle = 0 /\ matches # <<>>
    THEN [vehicle |-> matches[1],
          plateValidation |-> validation,
          suggestions |-> [k \in 1..Len(matches) |-> owners[matches[k]].plateNumber]]
    ELSE [vehicle |-> vehicle, plateValidation |-> validation, suggestions |-> <<>>]

\* lines 177-222: the fuzzy matches replace the vehicle only when the exact
\* search found none and the plate is not valid
lookupResult(owners, validation, vehicle, matches) ==
  IF vehicle = 0 /\ ~validation.isValid /\ matches # <<>>
    THEN [vehicle |-> matches[1],
          plateValidation |-> validation,
          suggestions |-> [k \in 1..Len(matches) |-> owners[matches[k]].plateNumber]]
    ELSE [vehicle |-> vehicle, plateValidation |-> validation, suggestions |-> <<>>]

\* lines 167-176 with the validation of the plate at hand
lookupValidated(owners, validation) ==
  lookupResult(owners, validation,
               findOneByPlate(owners, validation.normalized),
               fuzzyMatches(owners, [i \in Ids(owners) |->
                                       MatchTable[validation.normalized][owners[i].plateNumber]]))

lookupByPlateNumber(owners, plateNumber) ==
  lookupValidated(owners, PlateTable[plateNumber].validation)

\* the result of createVehicle: the error status (0 for none) and the table afterwards
createValidated(owners, plateValidation, fullName) ==
  IF ~plateValidation.isValid
    THEN [status |-> 400, message |-> "Invalid plate number", owners |-> owners]
  ELSE IF findOneByPlate(owners, plateValidation.normalized) # 0
    THEN [status |-> 409, message |-> "Plate number already exists", owners |-> owners]
  ELSE [status |-> 0,
        message |-> "",
        owners |-> Append(owners, [plateNumber |-> plateValidation.normalized,
                                   fullName |-> fullName,
                                   currentPoints |-> 0,
                                   status |-> "active"])]

createVehicle(owners, plateNumber, fullName) ==
  createValidated(owners, PlateTable[plateNumber].validation, fullName)

\* GET /vehicles/lookup/:plateNumber
LookupByPlateNumber(plateNumber) ==
  /\ response' =
       IF plateNumber = <<>>
         THEN Failed("lookupByPlateNumber", 400, "Plate number is required")
         ELSE [op |-> "lookupByPlateNumber", status |-> 200, searchedPlate |-> plateNumber]
                @@ lookupByPlateNumber(vehicleOwners, plateNumber)
  /\ UNCHANGED <<database, inflight>>

\* the sum stored as it is
unclamped(newPoints) == newPoints

\* Math.max(0, newPoints)
nonNegative(newPoints) == IF newPoints > 0 THEN newPoints ELSE 0

\* VehicleService.updateVehiclePoints (adjustPoints)
UpdateVehiclePoints(plateNumber, pointsToAdd) ==
  LET id == findOneByPlate(vehicleOwners, PlateTable[plateNumber].normalized)
  IN IF id = 0
       THEN /\ response' = Failed("updateVehiclePoints", 404, "Vehicle not found")
            /\ UNCHANGED <<database, inflight>>
       ELSE LET vehicle == vehicleOwners[id]
                newPoints == vehicle.currentPoints + pointsToAdd
                points == nonNegative(newPoints)
            IN /\ points <= MaxPoints
               /\ vehicleOwners' =
                    [vehicleOwners EXCEPT ![id] =
                       [vehicle EXCEPT !.currentPoints = points,
                                       !.status = IF points >= 12 /\ vehicle.status = "active"
                                                    THEN "suspended" ELSE vehicle.status]]
               /\ response' = [op |-> "updateVehiclePoints", status |-> 200]
               /\ UNCHANGED <<violations, payments, inflight>>

(***************************************************************************)
(* ViolationService.createViolation (createBatch)                          *)
(***************************************************************************)
\* ViolationType.findAll({ where: { id: { [Op.in]: ids }, isActive: true } })
findActiveTypes(violationTypeIds) ==
  Ascending({t \in Range(violationTypeIds) :
               t \in 1..Len(ViolationTypes) /\ ViolationTypes[t].isActive})

\* a weaker guard, which lets a batch pass when one of its types is found
someTypeFound(violationTypeIds) ==
  findActiveTypes(violationTypeIds) # <<>>

\* the guard "violationTypes.length !== violationTypeIds.length" passes
typesAccepted(violationTypeIds) ==
  Len(findActiveTypes(violationTypeIds)) = Len(violationTypeIds)

\* a threshold that is off by one: 12 points do not suspend
suspensionAbove(newPoints, status) == newPoints > 12 /\ status = "active"

\* newPoints >= 12 && vehicleOwner.status === 'active'
suspensionTriggered(newPoints, status) == newPoints >= 12 /\ status = "active"

\* the register of rows Violation.create adds for the resolved owner
newViolations(owner, types) ==
  [k \in 1..Len(types) |->
     [plateNumber    |-> owner.plateNumber,
      vehicleOwnerId |-> owner.id,
      violationTypeId |-> types[k],
      fineAmount     |-> ViolationTypes[types[k]].fineAmount,
      points         |-> ViolationTypes[types[k]].points,
      status         |-> "pending",
      paidDate       |-> "null",
      contestDate    |-> "null",
      contestReason  |-> "",
      officerNotes   |-> <<>>]]

\* the instance createViolation holds after lookup or createVehicle
ownerInstance(owners, id) ==
  [id |-> id, plateNumber |-> owners[id].plateNumber,
   currentPoints |-> owners[id].currentPoints, status |-> owners[id].status]

\* Lines 789-812: validate the types, then resolve or create the owner.  The
\* lookup and createVehicle run outside the transaction: an owner created
\* here is committed at once.
CreateViolationStart(plateNumber, violationTypeIds) ==
  IF ~typesAccepted(violationTypeIds)
    THEN /\ response' = Failed("createViolation", 400,
                                "One or more violation types are invalid or inactive")
         /\ UNCHANGED <<database, inflight>>
    ELSE
      LET types == findActiveTypes(violationTypeIds)
          vehicleLookup == lookupByPlateNumber(vehicleOwners, plateNumber)
          created == createVehicle(vehicleOwners, plateNumber, "Unknown Owner")
      IN IF vehicleLookup.vehicle # 0
           THEN /\ BagCardinality(inflight) < MaxInflight
                /\ inflight' = inflight (+) SetToBag({
                     [op |-> "createViolation", types |-> types, created |-> FALSE,
                      vehicleOwner |-> ownerInstance(vehicleOwners, vehicleLookup.vehicle)]})
                /\ response' = Running("createViolation")
                /\ UNCHANGED database
         ELSE IF created.status # 0
           THEN /\ response' = Failed("createViolation", created.status, created.message)
                /\ UNCHANGED <<database, inflight>>
         ELSE /\ BagCardinality(inflight) < MaxInflight
              /\ Len(vehicleOwners) < MaxVehicles
              /\ vehicleOwners' = created.owners
              /\ inflight' = inflight (+) SetToBag({
                   [op |-> "createViolation", types |-> types, created |-> TRUE,
                    vehicleOwner |-> ownerInstance(created.owners, Len(created.owners))]})
              /\ response' = Running("createViolation")
              /\ UNCHANGED <<violations, payments>>

\* vehicleOwner.save({ transaction }): only the changed attributes are written
saveVehicleOwner(row, instance, newPoints) ==
  [row EXCEPT
     !.currentPoints = IF newPoints # instance.currentPoints THEN newPoints ELSE @,
     !.status = IF suspensionTriggered(newPoints, instance.status) THEN "suspended" ELSE @]

\* Lines 814-873: the inserts, the points update and the commit
CreateViolationCommit(ctx) ==
  LET owner == ctx.vehicleOwner
      totalPoints == Sum([t \in 1..Len(ViolationTypes) |-> ViolationTypes[t].points], ctx.types)
      newPoints == owner.currentPoints + totalPoints
  IN /\ ctx.op = "createViolation"
     /\ Len(violations) + Len(ctx.types) <= MaxViolations
     /\ violations' = violations \o newViolations(owner, ctx.types)
     /\ vehicleOwners' =
          [vehicleOwners EXCEPT ![owner.id] = saveVehicleOwner(@, owner, newPoints)]
     /\ inflight' = inflight (-) SetToBag({ctx})
     /\ response' = [op |-> "createViolation", status |-> 201,
                     suspensionTriggered |-> suspensionTriggered(newPoints, owner.status)]
     /\ UNCHANGED payments

\* Lines 875-879: a Violation insert or the owner save throws (ticket number
\* collision, database error); the transaction is rolled back
CreateViolationFail(ctx) ==
  /\ ctx.op = "createViolation"
  /\ inflight' = inflight (-) SetToBag({ctx})
  /\ response' = Failed("createViolation", 500, "Database error")
  /\ UNCHANGED database

\* the values of Violation.status
ViolationStatuses ==
  {"pending", "paid", "partially_paid", "contested", "dismissed", "court_pending"}

\* Lines 1143-1172: findByPk, set the status whatever the old one is, append
\* the audit note when notes are given, stamp paidDate for "paid", save
UpdateViolationStatus(id, status, notes) ==
  IF id \notin Ids(violations)
    THEN /\ response' = Failed("updateViolationStatus", 404, "Violation not found")
         /\ UNCHANGED <<database, inflight>>
    ELSE /\ notes # "" => Len(violations[id].officerNotes) < MaxNotes
         /\ violations' = [violations EXCEPT ![id] =
              [@ EXCEPT !.status = status,
                        !.officerNotes =
                           IF notes # ""
                             THEN @ \o <<[from |-> violations[id].status, to |-> status,
                                          notes |-> notes]>>
                             ELSE @,
                        !.paidDate = IF status = "paid" THEN "date" ELSE @]]
         /\ response' = [op |-> "updateViolationStatus", status |-> 200]
         /\ UNCHANGED <<vehicleOwners, payments, inflight>>

\* a guard that refuses a second contest only
alreadyContested(status) == status = "contested"

\* violation.status !== 'pending'
contestRefused(status) == status # "pending"

\* Lines 1175-1199: findByPk, refuse every status but pending, else set
\* contested with the date and the reason, save
ContestViolation(id, contestReason) ==
  IF id \notin Ids(violations)
    THEN /\ response' = Failed("contestViolation", 404, "Violation not found")
         /\ UNCHANGED <<database, inflight>>
  ELSE IF contestRefused(violations[id].status)
    THEN /\ response' = Failed("contestViolation", 400, "Only pending violations can be contested")
         /\ UNCHANGED <<database, inflight>>
  ELSE /\ violations' = [violations EXCEPT ![id] =
            [@ EXCEPT !.status = "contested",
                      !.contestDate = "date",
                      !.contestReason = contestReason]]
       /\ response' = [op |-> "contestViolation", status |-> 200]
       /\ UNCHANGED <<vehicleOwners, payments, inflight>>

(***************************************************************************)
(* PaymentService                                                          *)
(***************************************************************************)
Payable == {"pending", "partially_paid"}

\* Violation.findAll({ where: { id: violationIds, status: [...] } })
findPayable(rows, violationIds) ==
  Ascending({v \in Range(violationIds) : v \in Ids(rows) /\ rows[v].status \in Payable})

\* the rows of the initiation requests that wait for the gateway
RECURSIVE pendingInserts(_)
pendingInserts(B) ==
  IF BagToSet(B) = {} THEN <<>>
  ELSE LET c == CHOOSE x \in BagToSet(B) : TRUE
           rest == pendingInserts(B (-) SetToBag({c}))
       IN IF c.op = "initiatePayment" THEN c.rows \o rest ELSE rest

\* `PAY_${Date.now()}_${random}`: a reference no stored or buffered row carries
freshReference(rows, buffered) ==
  CHOOSE n \in 1 .. (Len(rows) + Len(buffered) + 1) :
    /\ \A i \in Ids(rows) : rows[i].paymentReference # n
    /\ \A i \in Ids(buffered) : buffered[i].paymentReference # n

\* Payment.create for every violation, lines 85-97
newPayments(rows, violationIds, paymentReference, gateway) ==
  [k \in 1..Len(violationIds) |->
     [violationId      |-> violationIds[k],
      amount           |-> rows[violationIds[k]].fineAmount,
      paymentReference |-> paymentReference,
      gatewayProvider  |-> gateway,
      gatewayReference |-> "",
      status           |-> "pending",
      refundedAmount   |-> 0]]

\* payment_reference is declared unique: true (Payment.ts 95-100); the inserts
\* of one transaction are rejected when two rows would carry one reference
uniqueReference(stored, inserted) ==
  LET all == stored \o inserted
  IN \A i, j \in Ids(all) : all[i].paymentReference = all[j].paymentReference => i = j

\* Lines 53-139 up to the gateway request
InitiatePaymentStart(violationIds, gateway) ==
  \E found \in {findPayable(violations, violationIds)} :
    IF Len(found) # Len(violationIds)
      THEN /\ response' = Failed("initiatePayment", 400,
                                  "One or more violations cannot be paid or do not exist")
           /\ UNCHANGED <<database, inflight>>
    ELSE
      \E paymentReference \in {freshReference(payments, pendingInserts(inflight))} :
      \E rows \in {newPayments(violations, found, paymentReference, gateway)} :
        IF ~uniqueReference(payments, rows)
          THEN /\ response' = Failed("initiatePayment", 500,
                                      "Validation error: payment_reference must be unique")
               /\ UNCHANGED <<database, inflight>>
        ELSE IF gateway \notin SupportedGateways
          THEN /\ response' = Failed("initiatePayment", 400, "Unsupported payment gateway")
               /\ UNCHANGED <<database, inflight>>
        ELSE /\ BagCardinality(inflight) < MaxInflight
             /\ Len(payments) + Len(pendingInserts(inflight)) + Len(rows) <= MaxPayments
             /\ inflight' = inflight (+) SetToBag({
                  [op |-> "initiatePayment", rows |-> rows, gateway |-> gateway]})
             /\ response' = Running("initiatePayment")
             /\ UNCHANGED database

\* an initiation without rollback: the rows stay whatever the gateway answers
insertedRows(rows, gatewayOk) == rows

\* what the transaction of initiatePayment leaves in the table
initiatedRows(rows, gatewayOk) == IF gatewayOk THEN rows ELSE <<>>

\* Lines 104-163: the gateway answers; commit, or roll back on its error
InitiatePaymentFinish(ctx, gatewayOk) ==
  /\ ctx.op = "initiatePayment"
  /\ payments' = payments \o initiatedRows(ctx.rows, gatewayOk)
  /\ inflight' = inflight (-) SetToBag({ctx})
  /\ response' = IF gatewayOk
                   THEN [op |-> "initiatePayment", status |-> 200]
                   ELSE Failed("initiatePayment", 500, "Payment initialization failed")
  /\ UNCHANGED <<vehicleOwners, violations>>

\* a lookup by reference alone, whatever the status of the payment
findByReference(rows, paymentReference) ==
  Ascending({i \in Ids(rows) : rows[i].paymentReference = paymentReference})

\* Payment.findAll({ where: { paymentReference, status: 'pending' }, include: violation })
findPending(rows, paymentReference) ==
  Ascending({i \in Ids(rows) :
               rows[i].paymentReference = paymentReference /\ rows[i].status = "pending"})

\* Lines 171-215 up to the gateway request
VerifyPaymentRead(paymentReference, gateway) ==
  LET found == findPending(payments, paymentReference)
  IN IF found = <<>>
       THEN /\ response' = Failed("verifyPayment", 404, "No pending payments found for this reference")
            /\ UNCHANGED <<database, inflight>>
     ELSE IF gateway \notin SupportedGateways
       THEN /\ response' = Failed("verifyPayment", 400, "Unsupported payment gateway")
            /\ UNCHANGED <<database, inflight>>
     ELSE /\ BagCardinality(inflight) < MaxInflight
          /\ inflight' = inflight (+) SetToBag({
               [op |-> "verifyPayment", paymentReference |-> paymentReference,
                gateway |-> gateway,
                payments |-> [k \in 1..Len(found) |->
                                [id |-> found[k],
                                 violationId |-> payments[found[k]].violationId,
                                 violationStatus |-> violations[payments[found[k]].violationId].status]]]})
          /\ response' = Running("verifyPayment")
          /\ UNCHANGED database

\* payment.save of lines 219-225 and 253-256 for the loaded payments
verifiedPayments(rows, loaded, paymentSuccessful, resolvedGatewayReference) ==
  [i \in Ids(rows) |->
     IF \E k \in 1..Len(loaded) : loaded[k].id = i
       THEN IF paymentSuccessful
              THEN [rows[i] EXCEPT !.status = "completed",
                                   !.gatewayReference =
                                      IF resolvedGatewayReference # "" THEN resolvedGatewayReference ELSE @]
              ELSE [rows[i] EXCEPT !.status = "failed"]
       ELSE rows[i]]

\* payment.violation.save of lines 228-232
verifiedViolations(rows, loaded, paymentSuccessful) ==
  [v \in Ids(rows) |->
     IF paymentSuccessful /\ \E k \in 1..Len(loaded) : loaded[k].violationId = v
       THEN LET k == CHOOSE k \in 1..Len(loaded) : loaded[k].violationId = v
            IN [rows[v] EXCEPT !.status = IF loaded[k].violationStatus # "paid" THEN "paid" ELSE @,
                               !.paidDate = "date"]
       ELSE rows[v]]

\* Lines 217-277: the gateway answers "success", "failed" or with an error
VerifyPaymentFinish(ctx, answer, resolvedGatewayReference) ==
  /\ ctx.op = "verifyPayment"
  /\ inflight' = inflight (-) SetToBag({ctx})
  /\ IF answer = "error"
       THEN /\ response' = Failed("verifyPayment", 500, "Payment verification failed")
            /\ UNCHANGED database
       ELSE /\ payments' = verifiedPayments(payments, ctx.payments, answer = "success",
                                            resolvedGatewayReference)
            /\ violations' = verifiedViolations(violations, ctx.payments, answer = "success")
            /\ response' = [op |-> "verifyPayment", status |-> 200,
                            success |-> answer = "success"]
            /\ UNCHANGED vehicleOwners

PAYSTACK_SECRET_KEY == "PAYSTACK_SECRET_KEY"

FLUTTERWAVE_SECRET_KEY == "FLUTTERWAVE_SECRET_KEY"

\* crypto.HmacSHA512(payload, key).toString(): a digest is equal to another
\* exactly when algorithm, key and message are
HmacSHA512(payload, key) == <<"HmacSHA512", key, payload>>

HmacSHA256(payload, key) == <<"HmacSHA256", key, payload>>

\* PaystackService.verifyWebhookSignature
paystackVerifyWebhookSignature(payload, signature) ==
  HmacSHA512(payload, PAYSTACK_SECRET_KEY) = signature

\* FlutterwaveService.verifyWebhookSignature
flutterwaveVerifyWebhookSignature(payload, signature) ==
  HmacSHA256(payload, FLUTTERWAVE_SECRET_KEY) = signature

\* a check that accepts the signature of either provider on either route
signedByEitherProvider(gateway, signature, payload) ==
  \/ paystackVerifyWebhookSignature(payload, signature)
  \/ flutterwaveVerifyWebhookSignature(payload, signature)

\* Lines 286-299: isValidSignature
isValidSignature(gateway, signature, payload) ==
  IF gateway = "paystack" THEN paystackVerifyWebhookSignature(payload, signature)
  ELSE IF gateway = "flutterwave" THEN flutterwaveVerifyWebhookSignature(payload, signature)
  ELSE FALSE

\* Lines 290-299: payload.data?.reference || '' for paystack and
\* payload.data?.tx_ref || '' for flutterwave; 0 is the empty reference
webhookReference(gateway, payload) ==
  IF gateway = "paystack" THEN payload.reference
  ELSE IF gateway = "flutterwave" THEN payload.tx_ref
  ELSE 0

\* Lines 280-323. The payload is its data: reference and tx_ref are 0 and id
\* is "" when the field (or data) is missing. With a valid signature and a
\* reference the handler runs verifyPayment, whose errors it rethrows; the
\* gatewayReference it passes on is the id of the payload when there is one.
HandleWebhook(gateway, signature, payload) ==
  IF ~isValidSignature(gateway, signature, payload)
    THEN /\ response' = Failed("handleWebhook", 400, "Invalid webhook signature")
         /\ UNCHANGED <<database, inflight>>
  ELSE IF webhookReference(gateway, payload) = 0
    THEN /\ response' = [op |-> "handleWebhook", status |-> 200]
         /\ UNCHANGED <<database, inflight>>
  ELSE VerifyPaymentRead(webhookReference(gateway, payload), gateway)

\* the refund guards without the comparison of the amounts
refundRejectedLax(rows, paymentId, refundAmount) ==
  IF paymentId \notin Ids(rows)
    THEN [status |-> 404, message |-> "Payment not found"]
  ELSE IF rows[paymentId].status # "completed"
    THEN [status |-> 400, message |-> "Only completed payments can be refunded"]
  ELSE IF rows[paymentId].gatewayProvider # "paystack"
    THEN [status |-> 400, message |-> "Refunds not supported for this gateway yet"]
  ELSE IF rows[paymentId].gatewayReference = ""
    THEN [status |-> 400, message |-> "Gateway reference not found for this payment"]
  ELSE [status |-> 0, message |-> ""]

\* the guards of lines 437-464 before the gateway request: the error they
\* throw, status 0 for none
refundRejected(rows, paymentId, refundAmount) ==
  IF paymentId \notin Ids(rows)
    THEN [status |-> 404, message |-> "Payment not found"]
  ELSE IF rows[paymentId].status # "completed"
    THEN [status |-> 400, message |-> "Only completed payments can be refunded"]
  ELSE IF refundAmount > rows[paymentId].amount
    THEN [status |-> 400, message |-> "Refund amount cannot exceed payment amount"]
  ELSE IF rows[paymentId].gatewayProvider # "paystack"
    THEN [status |-> 400, message |-> "Refunds not supported for this gateway yet"]
  ELSE IF rows[paymentId].gatewayReference = ""
    THEN [status |-> 400, message |-> "Gateway reference not found for this payment"]
  ELSE [status |-> 0, message |-> ""]

ProcessRefundRead(paymentId, refundAmount) ==
  LET rejected == refundRejected(payments, paymentId, refundAmount)
  IN IF rejected.status # 0
       THEN /\ response' = Failed("processRefund", rejected.status, rejected.message)
            /\ UNCHANGED <<database, inflight>>
       ELSE /\ BagCardinality(inflight) < MaxInflight
            /\ inflight' = inflight (+) SetToBag({
                 [op |-> "processRefund", paymentId |-> paymentId,
                  refundAmount |-> refundAmount,
                  amount |-> payments[paymentId].amount,
                  violationId |-> payments[paymentId].violationId]})
            /\ response' = Running("processRefund")
            /\ UNCHANGED database

\* a refund that counts as full whatever its amount
anyRefund(refundAmount, amount) == refundAmount > 0

\* refundAmount === Number(payment.amount)
fullyRefunded(refundAmount, amount) == refundAmount = amount

\* Lines 466-499: the gateway refund answers; update the payment, reopen the
\* violation on a full refund, commit
ProcessRefundFinish(ctx, gatewayOk) ==
  /\ ctx.op = "processRefund"
  /\ inflight' = inflight (-) SetToBag({ctx})
  /\ IF ~gatewayOk
       THEN /\ response' = Failed("processRefund", 500, "Refund failed")
            /\ UNCHANGED database
       ELSE /\ payments' = [payments EXCEPT ![ctx.paymentId] =
                              [@ EXCEPT !.status = "refunded",
                                        !.refundedAmount = ctx.refundAmount]]
            /\ violations' =
                 IF fullyRefunded(ctx.refundAmount, ctx.amount)
                   THEN [violations EXCEPT ![ctx.violationId] =
                           [@ EXCEPT !.status = "pending", !.paidDate = "null"]]
                   ELSE violations
            /\ response' = [op |-> "processRefund", status |-> 200]
            /\ UNCHANGED vehicleOwners

\* the elements of a set of numbers in descending order
Descending(S) == [k \in 1 .. Cardinality(S) |-> Ascending(S)[Cardinality(S) + 1 - k]]

\* String.prototype.toUpperCase
upperCase(s) == [k \in 1 .. Len(s) |-> toUpperCase(s[k])]

\* Violation.findAll({ where: { plateNumber }, order: [['violationDate', 'DESC']] })
findAllByPlate(rows, plateNumber) ==
  Descending({v \in Ids(rows) : rows[v].plateNumber = plateNumber})

\* lines 1236-1258: the sums over the violations found and the owner's points
\* and status, 0 and "unknown" when no owner has the plate
summaryOf(rows, found, owners, owner) ==
  [totalViolations |-> Len(found),
   totalAmount |-> Sum([v \in Ids(rows) |-> rows[v].fineAmount], found),
   paidAmount |-> Sum([v \in Ids(rows) |->
                        IF rows[v].status = "paid" THEN rows[v].fineAmount ELSE 0], found),
   outstandingAmount |-> Sum([v \in Ids(rows) |->
                               IF rows[v].status = "paid" THEN 0 ELSE rows[v].fineAmount], found),
   currentPoints |-> IF owner = 0 THEN 0 ELSE owners[owner].currentPoints,
   suspensionStatus |-> IF owner = 0 THEN "unknown" ELSE owners[owner].status]

\* the result for the plate the queries are made with
violationsOfPlate(queried) ==
  [violations |-> findAllByPlate(violations, queried),
   summary |-> summaryOf(violations, findAllByPlate(violations, queried),
                         vehicleOwners, findOneByPlate(vehicleOwners, queried))]

\* Lines 1202-1264: both queries are made with plateNumber.toUpperCase()
getViolationsByPlateNumber(plateNumber) == violationsOfPlate(upperCase(plateNumber))

\* GET /violations/plate/:plateNumber
GetViolationsByPlate(plateNumber) ==
  /\ response' = [op |-> "getViolationsByPlate", status |-> 200,
                  plateNumber |-> plateNumber,
                  data |-> getViolationsByPlateNumber(plateNumber)]
  /\ UNCHANGED <<database, inflight>>

(***************************************************************************)
(* Plate validation requests                                               *)
(***************************************************************************)
\* PlateValidator.normalizePlateNumber applied to a plate
NormalizePlateNumber(plateNumber) ==
  /\ response' = [op |-> "normalizePlateNumber", plateNumber |-> plateNumber,
                  normalized |-> normalizePlateNumber(plateNumber)]
  /\ UNCHANGED <<database, inflight>>

\* data of the 200 answer for a validation: category is "null" for null
validationData(plateNumber, validation) ==
  [op |-> "validatePlateNumber", status |-> 200,
   isValid |-> validation.isValid,
   normalized |-> validation.normalized,
   originalInput |-> plateNumber,
   format |-> validation.format,
   errors |-> validation.errors,
   category |-> IF validation.isValid THEN getPlateCategory(validation.normalized)
                                      ELSE "null"]

\* POST /vehicles/validate-plate
ValidatePlateNumber(plateNumber) ==
  /\ response' = IF plateNumber = <<>>
                   THEN Failed("validatePlateNumber", 400, "Plate number is required")
                   ELSE validationData(plateNumber, validatePlateNumber(plateNumber))
  /\ UNCHANGED <<database, inflight>>

\* PlateValidator.getPlateCategory applied to a plate
GetPlateCategory(plateNumber) ==
  /\ response' = [op |-> "getPlateCategory", plateNumber |-> plateNumber,
                  category |-> getPlateCategory(plateNumber)]
  /\ UNCHANGED <<database, inflight>>

\* PlateValidator.fuzzyMatchPlate applied to two plates
FuzzyMatchPlate(inputPlate, targetPlate, threshold) ==
  /\ response' = [op |-> "fuzzyMatchPlate", inputPlate |-> inputPlate,
                  targetPlate |-> targetPlate, threshold |-> threshold,
                  match |-> fuzzyMatchPlate(inputPlate, targetPlate, threshold)]
  /\ UNCHANGED <<database, inflight>>

(***************************************************************************)
(* Specification                                                           *)
(***************************************************************************)
\* the seeded vehicle of seedSampleVehicles
seededVehicles ==
  << [plateNumber |-> ABC123DE, fullName |-> "Adebayo Johnson",
      currentPoints |-> 0, status |-> "active"] >>

Init ==
  /\ vehicleOwners = seededVehicles
  /\ violations = <<>>
  /\ payments = <<>>
  /\ inflight = EmptyBag
  /\ response = [op |-> "none", status |-> 0]

\* the createViolation requests for the plates given
BatchRequests(plates) ==
  \/ \E plateNumber \in plates, ids \in TypeIdLists :
       CreateViolationStart(plateNumber, ids)
  \/ \E ctx \in BagToSet(inflight) : CreateViolationCommit(ctx)
  \/ \E ctx \in BagToSet(inflight) : CreateViolationFail(ctx)

\* the adjustPoints requests
PointRequests ==
  \E plateNumber \in AdjustedPlates, pointsToAdd \in PointDeltas :
    UpdateVehiclePoints(plateNumber, pointsToAdd)

NextBatches == BatchRequests(RawPlates)

\* the requests of the violation ledger: createViolation and adjustPoints
NextViolations == NextBatches \/ PointRequests

\* the refund requests
NextRefunds ==
  \/ \E paymentId \in 1 .. (MaxPayments + 1), refundAmount \in RefundAmounts :
       ProcessRefundRead(paymentId, refundAmount)
  \/ \E ctx \in BagToSet(inflight), gatewayOk \in BOOLEAN : ProcessRefundFinish(ctx, gatewayOk)

\* the requests of the payment service: initiate, verify and refund
NextPayments ==
  \/ \E ids \in ViolationIdLists, gateway \in Gateways :
       InitiatePaymentStart(ids, gateway)
  \/ \E ctx \in BagToSet(inflight), gatewayOk \in BOOLEAN : InitiatePaymentFinish(ctx, gatewayOk)
  \/ \E paymentReference \in 1 .. (MaxPayments + 1), gateway \in Gateways :
       VerifyPaymentRead(paymentReference, gateway)
  \/ \E ctx \in BagToSet(inflight), answer \in {"success", "failed", "error"},
        gatewayReference \in {"", "gw"} :
       VerifyPaymentFinish(ctx, answer, gatewayReference)
  \/ NextRefunds

\* the signatures a webhook request may carry for a payload: the digest of
\* each provider, a digest under another key, the digest of another payload,
\* and no signature header
WebhookSignatures(payload) ==
  { HmacSHA512(payload, PAYSTACK_SECRET_KEY),
    HmacSHA256(payload, FLUTTERWAVE_SECRET_KEY),
    HmacSHA512(payload, "guess"),
    HmacSHA512([payload EXCEPT !.id = "78"], PAYSTACK_SECRET_KEY),
    <<>> }

\* the webhook requests of both providers
WebhookRequests ==
  \E gateway \in SupportedGateways, payload \in WebhookPayloads :
    \E signature \in WebhookSignatures(payload) :
      HandleWebhook(gateway, signature, payload)

\* what updateStatus is asked for: every status without notes, and a
\* dismissal with notes
StatusRequests ==
  {<<status, "">> : status \in ViolationStatuses} \cup {<<"dismissed", "appeal upheld">>}

\* the contest and updateStatus requests, for the ticket and for an id that
\* does not exist
StatusChanges ==
  \/ \E id \in 1 .. 2 : ContestViolation(id, "camera misread the plate")
  \/ \E id \in 1 .. 2, request \in StatusRequests :
       UpdateViolationStatus(id, request[1], request[2])

\* every request of the service
Next ==
  \/ NextViolations
  \/ NextPayments
  \/ StatusChanges
  \/ WebhookRequests
  \/ \E plateNumber \in RawPlates : LookupByPlateNumber(plateNumber)
  \/ \E plateNumber \in Plates : GetViolationsByPlate(plateNumber)

\* the whole service
Spec == Init /\ [][Next]_vars

\* the violation ledger on its own: no payment is ever initiated
SpecViolations == Init /\ [][NextViolations]_vars

\* createViolation on its own: the points change through tickets only
SpecBatches == Init /\ [][NextBatches]_vars

\* The database once createViolation has committed the batch <<1, 2>> for the
\* seeded vehicle: the state the payment service starts from
InitPayments ==
  LET seeded == seededVehicles
      owner == ownerInstance(seeded, 1)
  IN /\ vehicleOwners = [seeded EXCEPT ![1] = saveVehicleOwner(@, owner, 4)]
     /\ violations = newViolations(owner, <<1, 2>>)
     /\ payments = <<>>
     /\ inflight = EmptyBag
     /\ response = [op |-> "createViolation", status |-> 201, suspensionTriggered |-> FALSE]

\* the payment service over the violations of one committed batch
SpecPayments == InitPayments /\ [][NextPayments]_vars

\* payments that are initiated by request and verified by webhook only
NextWebhook ==
  \/ \E ids \in ViolationIdLists, gateway \in SupportedGateways :
       InitiatePaymentStart(ids, gateway)
  \/ \E ctx \in BagToSet(inflight) : InitiatePaymentFinish(ctx, TRUE)
  \/ WebhookRequests
  \/ \E ctx \in BagToSet(inflight), answer \in {"success", "failed", "error"} :
       VerifyPaymentFinish(ctx, answer, "gw")

SpecWebhook == InitPayments /\ [][NextWebhook]_vars

\* the payment service with one request at a time: a request that waits for
\* the gateway is answered before the next one starts
NextSerial == NextPayments /\ (inflight = EmptyBag \/ inflight' = EmptyBag)

SpecSerial == InitPayments /\ [][NextSerial]_vars

\* the calls of the plate validator that are asked for
PlateRequests ==
  {[op |-> "request", call |-> call, plateNumber |-> plateNumber] :
     call \in {"normalizePlateNumber", "validatePlateNumber", "getPlateCategory"},
     plateNumber \in PlateInputs}
  \cup
  {[op |-> "request", call |-> "fuzzyMatchPlate", inputPlate |-> inputPlate,
    targetPlate |-> targetPlate, threshold |-> threshold] :
     inputPlate \in FuzzyPlates, targetPlate \in FuzzyPlates, threshold \in Thresholds}

\* one call is asked for
InitPlates ==
  /\ vehicleOwners = seededVehicles
  /\ violations = <<>>
  /\ payments = <<>>
  /\ inflight = EmptyBag
  /\ response \in PlateRequests

\* the call asked for is made
NextPlates ==
  \/ /\ response.op = "request"
     /\ response.call = "normalizePlateNumber"
     /\ NormalizePlateNumber(response.plateNumber)
  \/ /\ response.op = "request"
     /\ response.call = "validatePlateNumber"
     /\ ValidatePlateNumber(response.plateNumber)
  \/ /\ response.op = "request"
     /\ response.call = "getPlateCategory"
     /\ GetPlateCategory(response.plateNumber)
  \/ /\ response.op = "request"
     /\ response.call = "fuzzyMatchPlate"
     /\ FuzzyMatchPlate(response.inputPlate, response.targetPlate, response.threshold)

\* the plate validator over the plates of PlateInputs and FuzzyPlates
SpecPlates == InitPlates /\ [][NextPlates]_vars

\* the rows of the vehicles registered with the plates of the list at the
\* indices given, in that order
registered(indices) ==
  [k \in 1 .. Len(indices) |->
     [plateNumber |-> StoredPlateList[indices[k]], fullName |-> "Unknown Owner",
      currentPoints |-> 0, status |-> "active"]]

\* the tables of vehicles a lookup may find: any of the plates of the list,
\* registered in the order of the list or in the reverse order
LookupTables ==
  {registered(Ascending(S)) : S \in SUBSET (1 .. Len(StoredPlateList))}
  \cup {registered(Descending(S)) : S \in SUBSET (1 .. Len(StoredPlateList))}

\* one lookup is asked for
InitLookup ==
  /\ vehicleOwners \in LookupTables
  /\ violations = <<>>
  /\ payments = <<>>
  /\ inflight = EmptyBag
  /\ response \in {[op |-> "request", call |-> "lookupByPlateNumber", plateNumber |-> plateNumber] :
                      plateNumber \in RawPlates}

\* the lookup asked for is made
NextLookup ==
  /\ response.op = "request"
  /\ LookupByPlateNumber(response.plateNumber)

\* the lookup of a plate over the tables of LookupTables
SpecLookup == InitLookup /\ [][NextLookup]_vars

\* createViolation and the self-service query of the violations of a plate
NextSelfService ==
  \/ NextBatches
  \/ \E plateNumber \in Plates : GetViolationsByPlate(plateNumber)

SpecSelfService == Init /\ [][NextSelfService]_vars

\* The database once a ticket of type 1 for the seeded vehicle has been paid
\* through paystack: createViolation, initiatePayment and verifyPayment have
\* each run once
InitPaid ==
  LET owner == ownerInstance(seededVehicles, 1)
      ticket == newViolations(owner, <<1>>)
      loaded == << [id |-> 1, violationId |-> 1, violationStatus |-> "pending"] >>
  IN /\ vehicleOwners = [seededVehicles EXCEPT ![1] = saveVehicleOwner(@, owner, 2)]
     /\ violations = verifiedViolations(ticket, loaded, TRUE)
     /\ payments = verifiedPayments(newPayments(ticket, <<1>>, 1, "paystack"), loaded, TRUE, "gw")
     /\ inflight = EmptyBag
     /\ response = [op |-> "verifyPayment", status |-> 200, success |-> TRUE]

\* the plates that lead to the seeded vehicle, or to none
SeededPlates == RawPlates \ {LAG456XY}

NextSuspension == BatchRequests(SeededPlates) \/ PointRequests \/ NextRefunds

\* the violation ledger of the seeded vehicle and the refunds of its paid ticket
SpecSuspension == InitPaid /\ [][NextSuspension]_vars

\* The database once createViolation has committed one ticket of type 1 for
\* the seeded vehicle
InitTicket ==
  LET owner == ownerInstance(seededVehicles, 1)
  IN /\ vehicleOwners = [seededVehicles EXCEPT ![1] = saveVehicleOwner(@, owner, 2)]
     /\ violations = newViolations(owner, <<1>>)
     /\ payments = <<>>
     /\ inflight = EmptyBag
     /\ response = [op |-> "createViolation", status |-> 201, suspensionTriggered |-> FALSE]

\* contest and updateStatus over one pending ticket
SpecContest == InitTicket /\ [][StatusChanges]_vars

\* The database once initiatePayment has committed a paystack payment for the
\* ticket
InitInitiated ==
  LET owner == ownerInstance(seededVehicles, 1)
      ticket == newViolations(owner, <<1>>)
  IN /\ vehicleOwners = [seededVehicles EXCEPT ![1] = saveVehicleOwner(@, owner, 2)]
     /\ violations = ticket
     /\ payments = newPayments(ticket, <<1>>, 1, "paystack")
     /\ inflight = EmptyBag
     /\ response = [op |-> "initiatePayment", status |-> 200]

\* the verification of the payment of the ticket, and its refund
TicketPayments ==
  \/ \E paymentReference \in 1 .. 2 : VerifyPaymentRead(paymentReference, "paystack")
  \/ \E ctx \in BagToSet(inflight), answer \in {"success", "failed"} :
       VerifyPaymentFinish(ctx, answer, "gw")
  \/ \E refundAmount \in {8, 10} : ProcessRefundRead(1, refundAmount)
  \/ \E ctx \in BagToSet(inflight) : ProcessRefundFinish(ctx, TRUE)

NextStatus == StatusChanges \/ TicketPayments

\* the status of one ticket under contest, updateStatus, verify and refund
SpecStatus == InitInitiated /\ [][NextStatus]_vars

(***************************************************************************)
(* Properties                                                              *)
(***************************************************************************)
\* every id of the list names a stored violation that is pending or partially paid
allPayable(ids) ==
  \A k \in 1..Len(ids) : ids[k] \in Ids(violations) /\ violations[ids[k]].status \in Payable

\* C1: an initiate call that covers two or more payable violations through a
\* supported gateway is accepted (it reaches the gateway with one pending
\* payment per violation, all of one reference).
PaymentFanOut ==
  [][\A ids \in ViolationIdLists, gateway \in SupportedGateways :
       (InitiatePaymentStart(ids, gateway) /\ Len(ids) >= 2 /\ allPayable(ids))
         => /\ response' = Running("initiatePayment")
            /\ \E ctx \in BagToSet(inflight') :
                 /\ ctx.op = "initiatePayment"
                 /\ Len(ctx.rows) = Len(ids)
                 /\ \A k \in 1..Len(ids) :
                      /\ ctx.rows[k].violationId = ids[k]
                      /\ ctx.rows[k].status = "pending"
                      /\ ctx.rows[k].paymentReference = ctx.rows[1].paymentReference]_vars

\* the points of the tickets stored for vehicle v
ticketPoints(v) ==
  Sum([i \in Ids(violations) |->
         IF violations[i].vehicleOwnerId = v THEN violations[i].points ELSE 0],
      [i \in Ids(violations) |-> i])

\* C2: once every createBatch call has ended, the points of each vehicle are
\* its prior points (none) plus the points of every ticket the calls created.
NoLostPointUpdates ==
  inflight = EmptyBag
    => \A v \in Ids(vehicleOwners) : vehicleOwners[v].currentPoints = ticketPoints(v)

\* C3: a createBatch call that fails after it resolved the vehicle leaves no
\* ticket, no vehicle record it created and no change of points or status.
BatchAllOrNothing ==
  [][\A ctx \in BagToSet(inflight) :
       CreateViolationFail(ctx)
         => /\ violations' = violations
            /\ ctx.created => ctx.vehicleOwner.id \notin Ids(vehicleOwners')
            /\ \A v \in Ids(vehicleOwners) \cap Ids(vehicleOwners') :
                 /\ vehicleOwners'[v].currentPoints = vehicleOwners[v].currentPoints
                 /\ vehicleOwners'[v].status = vehicleOwners[v].status]_vars

\* some id of the list names no type of the catalogue, or a deactivated one
someTypeInvalid(ids) ==
  \E k \in 1..Len(ids) : ids[k] \notin 1..Len(ViolationTypes) \/ ~ViolationTypes[ids[k]].isActive

\* C4: in every reachable state a createBatch call that names an unknown or
\* deactivated type can only be answered with status 400, and that step
\* changes no ticket, no vehicle and no points and starts no transaction.
InvalidTypesRejected ==
  \A plateNumber \in RawPlates, ids \in TypeIdLists :
    someTypeInvalid(ids)
      => /\ ENABLED CreateViolationStart(plateNumber, ids)
         /\ ~ENABLED (/\ CreateViolationStart(plateNumber, ids)
                      /\ ~(/\ response'.status = 400
                           /\ inflight' = inflight
                           /\ database' = database))

\* C4 happens: createViolation has just answered that a type is invalid
InvalidTypesRejection ==
  /\ response.op = "createViolation"
  /\ response.status = 400
  /\ response.message = "One or more violation types are invalid or inactive"

\* C5: in every reachable state an initiate call that names a violation that
\* is missing or not payable, or an unsupported gateway, can only be rejected,
\* and so can a call whose gateway request fails; the rejecting step leaves
\* no payment of the call and no violation changed.
InitiateAllOrNothing ==
  /\ \A ids \in ViolationIdLists, gateway \in Gateways :
       (~allPayable(ids) \/ gateway \notin SupportedGateways)
         => /\ ENABLED InitiatePaymentStart(ids, gateway)
            /\ ~ENABLED (/\ InitiatePaymentStart(ids, gateway)
                         /\ ~(/\ response'.status >= 400
                              /\ inflight' = inflight
                              /\ database' = database))
  /\ \A ctx \in BagToSet(inflight) :
       ctx.op = "initiatePayment"
         => /\ ENABLED InitiatePaymentFinish(ctx, FALSE)
            /\ ~ENABLED (/\ InitiatePaymentFinish(ctx, FALSE)
                         /\ ~(/\ response'.status >= 400
                              /\ database' = database))

\* C5 happens: the gateway has just refused an initiation and the table holds
\* no payment
InitiateRolledBack ==
  /\ response.op = "initiatePayment"
  /\ response.status = 500
  /\ response.message = "Payment initialization failed"
  /\ payments = <<>>

\* C6: a payment that was set to completed is never set to failed afterwards,
\* nor the reverse.
OneTerminalTransition ==
  [][\A i \in Ids(payments) :
       /\ payments[i].status = "completed" => payments'[i].status # "failed"
       /\ payments[i].status = "failed" => payments'[i].status # "completed"]_vars

\* C7: in every reachable state verify on a reference without a pending
\* payment can only answer 404, without a gateway request (nothing goes in
\* flight), and changes no payment and no violation.
VerifyReplayRejected ==
  \A paymentReference \in 1 .. (MaxPayments + 1), gateway \in Gateways :
    (\A i \in Ids(payments) :
       payments[i].paymentReference = paymentReference => payments[i].status # "pending")
      => /\ ENABLED VerifyPaymentRead(paymentReference, gateway)
         /\ ~ENABLED (/\ VerifyPaymentRead(paymentReference, gateway)
                      /\ ~(/\ response'.status = 404
                           /\ inflight' = inflight
                           /\ database' = database))

\* C7 happens: verify has just answered 404 while every stored payment is
\* resolved, one of them completed
VerifyReplayed ==
  /\ response.op = "verifyPayment"
  /\ response.status = 404
  /\ \A i \in Ids(payments) : payments[i].status # "pending"
  /\ \E i \in Ids(payments) : payments[i].status = "completed"

\* C8: a step that brings an active vehicle to 12 points or more suspends it
\* (createViolation answers suspensionTriggered), no step sets a suspended
\* vehicle back to active, and a refund changes no vehicle.
SuspensionMonotone ==
  [][/\ \A v \in Ids(vehicleOwners) :
          /\ (vehicleOwners[v].status = "active" /\ vehicleOwners'[v].currentPoints >= 12)
               => vehicleOwners'[v].status = "suspended"
          /\ vehicleOwners[v].status = "suspended" => vehicleOwners'[v].status = "suspended"
     /\ \A ctx \in BagToSet(inflight) :
          (CreateViolationCommit(ctx)
             /\ vehicleOwners[ctx.vehicleOwner.id].status = "active"
             /\ vehicleOwners'[ctx.vehicleOwner.id].currentPoints >= 12)
            => response'.suspensionTriggered
     /\ response'.op = "processRefund" => vehicleOwners' = vehicleOwners]_vars

\* C8 happens: createViolation has just suspended the seeded vehicle at
\* exactly 12 points, after its first ticket was refunded
SuspendedAtThreshold ==
  /\ response.op = "createViolation"
  /\ response.status = 201
  /\ response.suspensionTriggered
  /\ vehicleOwners[1].currentPoints = 12
  /\ vehicleOwners[1].status = "suspended"
  /\ payments[1].status = "refunded"

\* C9: in every reachable state a refund of a payment that does not exist, is
\* not completed, is asked for more than its amount or went through another
\* gateway than paystack can only be rejected with status 400 or 404, before
\* the gateway request (nothing goes in flight), and changes nothing.
RefundGuard ==
  \A paymentId \in 1 .. (MaxPayments + 1), refundAmount \in RefundAmounts :
    (\/ paymentId \notin Ids(payments)
     \/ payments[paymentId].status # "completed"
     \/ refundAmount > payments[paymentId].amount
     \/ payments[paymentId].gatewayProvider # "paystack")
      => /\ ENABLED ProcessRefundRead(paymentId, refundAmount)
         /\ ~ENABLED (/\ ProcessRefundRead(paymentId, refundAmount)
                      /\ ~(/\ response'.status \in {400, 404}
                           /\ inflight' = inflight
                           /\ database' = database))

\* C9 happens: a refund of more than the amount of a completed payment has
\* just been rejected
RefundOverAmountRejected ==
  /\ response.op = "processRefund"
  /\ response.status = 400
  /\ response.message = "Refund amount cannot exceed payment amount"
  /\ \E i \in Ids(payments) : payments[i].status = "completed"

\* C10: a refund the gateway accepts sets the payment to refunded with the
\* requested amount; it reopens the violation (pending, no paid date) when
\* the amount is the whole payment and leaves the violation as it is
\* otherwise.
RefundEffect ==
  [][\A ctx \in BagToSet(inflight) :
       ProcessRefundFinish(ctx, TRUE)
         => /\ payments'[ctx.paymentId].status = "refunded"
            /\ payments'[ctx.paymentId].refundedAmount = ctx.refundAmount
            /\ IF ctx.refundAmount = payments[ctx.paymentId].amount
                 THEN /\ violations'[payments[ctx.paymentId].violationId].status = "pending"
                      /\ violations'[payments[ctx.paymentId].violationId].paidDate = "null"
                 ELSE violations' = violations]_vars

\* C10 happens: a partial refund has left its violation paid
PartialRefundKeepsPaid ==
  /\ response.op = "processRefund"
  /\ response.status = 200
  /\ \E i \in Ids(payments) :
       /\ payments[i].status = "refunded"
       /\ payments[i].refundedAmount < payments[i].amount
       /\ violations[payments[i].violationId].status = "paid"

\* C11: contestViolation on a violation that is not pending answers 400 and
\* leaves the violation as it is; on a pending violation it answers 200, sets
\* the status contested and stamps contestDate and contestReason.
ContestGuard ==
  [][\A id \in Ids(violations) :
       ContestViolation(id, "camera misread the plate")
         => IF violations[id].status # "pending"
              THEN /\ response'.status = 400
                   /\ violations' = violations
              ELSE /\ response'.status = 200
                   /\ violations'[id].status = "contested"
                   /\ violations'[id].contestDate = "date"
                   /\ violations'[id].contestReason = "camera misread the plate"]_vars

\* C11 happens: the contest of a paid violation has just been refused
ContestOfPaidRefused ==
  /\ response.op = "contestViolation"
  /\ response.status = 400
  /\ violations[1].status = "paid"
  /\ violations[1].contestDate = "null"

\* a step sets the status of violation id to contested
entersContested(id) ==
  violations[id].status # "contested" /\ violations'[id].status = "contested"

\* C19 as stated: whatever the operation (contestViolation, updateStatus,
\* verify, refund), a violation becomes contested only from pending.
ContestedOnlyFromPending ==
  [][\A id \in Ids(violations) :
       entersContested(id) => violations[id].status = "pending"]_vars

\* C19 amended: contestViolation, verify and refund make a violation
\* contested only from pending; updateStatus sets whatever status it is given.
ContestedOnlyFromPendingUnlessUpdated ==
  [][\A id \in Ids(violations) :
       (entersContested(id) /\ response'.op # "updateViolationStatus")
         => violations[id].status = "pending"]_vars

\* C19 happens: the ticket was paid, fully refunded and then contested
ContestedAfterRefund ==
  /\ response.op = "contestViolation"
  /\ response.status = 200
  /\ violations[1].status = "contested"
  /\ payments[1].status = "refunded"

\* C12: in every state reached through initiate, verify and refund each
\* payment has 0 <= refundedAmount <= amount and a refundedAmount other than
\* 0 only when it is refunded; a payment becomes refunded only from
\* completed, and a refund is applied only to a completed payment (so at most
\* once).
PaymentRefundInvariant ==
  [][/\ \A i \in Ids(payments') :
          /\ 0 <= payments'[i].refundedAmount
          /\ payments'[i].refundedAmount <= payments'[i].amount
          /\ payments'[i].refundedAmount # 0 => payments'[i].status = "refunded"
     /\ \A i \in Ids(payments) :
          (payments'[i].status = "refunded" /\ payments[i].status # "refunded")
            => payments[i].status = "completed"
     /\ \A ctx \in BagToSet(inflight) :
          ProcessRefundFinish(ctx, TRUE) => payments[ctx.paymentId].status = "completed"]_vars

\* the signature the provider of the route computes for the payload
providerSignature(gateway, payload) ==
  IF gateway = "paystack" THEN HmacSHA512(payload, PAYSTACK_SECRET_KEY)
                          ELSE HmacSHA256(payload, FLUTTERWAVE_SECRET_KEY)

\* the reference field the provider of the route uses
providerReference(gateway, payload) ==
  IF gateway = "paystack" THEN payload.reference ELSE payload.tx_ref

\* C13: a webhook whose signature is not the provider's is answered with the
\* error "Invalid webhook signature", changes no row and starts no
\* verification; a webhook with the provider's signature and no reference
\* returns normally, changes no row and starts no verification.
WebhookGating ==
  \A gateway \in SupportedGateways, payload \in WebhookPayloads :
    \A signature \in WebhookSignatures(payload) :
      /\ signature # providerSignature(gateway, payload) =>
            /\ ENABLED HandleWebhook(gateway, signature, payload)
            /\ ~ENABLED (/\ HandleWebhook(gateway, signature, payload)
                         /\ ~(/\ response' = Failed("handleWebhook", 400, "Invalid webhook signature")
                              /\ UNCHANGED <<database, inflight>>))
      /\ (signature = providerSignature(gateway, payload)
             /\ providerReference(gateway, payload) = 0) =>
            /\ ENABLED HandleWebhook(gateway, signature, payload)
            /\ ~ENABLED (/\ HandleWebhook(gateway, signature, payload)
                         /\ ~(/\ response' = [op |-> "handleWebhook", status |-> 200]
                              /\ UNCHANGED <<database, inflight>>))

\* a webhook was rejected for its signature while a payment was waiting for
\* its verification
WebhookRejected ==
  /\ response = Failed("handleWebhook", 400, "Invalid webhook signature")
  /\ \E i \in Ids(payments) : payments[i].status = "pending"

\* C14: normalizing a normalized plate changes nothing, for every plate of
\* letters in either case, digits, hyphens and whitespace, the empty one
\* included.
NormalizeIdempotent ==
  /\ response.op = "normalizePlateNumber" =>
        normalizePlateNumber(response.normalized) = response.normalized
  /\ (response.op = "validatePlateNumber" /\ response.status = 200) =>
        normalizePlateNumber(response.normalized) = response.normalized

\* a plate in mixed case with a tab and blanks was normalized to AB-123-CD
NormalizedMixedCase ==
  /\ response.op = "normalizePlateNumber"
  /\ response.plateNumber = <<"a","\t","B"," ","1","2","3"," ","c","d">>
  /\ response.normalized = <<"A","B","-","1","2","3","-","C","D">>

\* the examples of the format table and the test inputs that are valid
ValidExamples ==
  {<<"A","B","C","-","1","2","3","-","D","E">>,
   <<"A","B","-","1","2","3","-","C","D">>,
   <<"C","O","M","-","1","2","3","-","X","Y">>,
   <<"A","B","U","J","A","-","1","2","3">>,
   <<"C","D","-","1","2","3","-","A">>,
   <<"M","I","L","-","1","2","3">>,
   <<"A","B","1","2","3","C","D">>,
   <<"a","b","1","2","3","c","d">>,
   <<"L","A","-","4","5","6","-","S","T">>}

\* C15: the example of every format and the valid test inputs are valid with
\* no errors, and so is their normalized form when it is validated in turn;
\* INVALID is not valid.
RoundTripValidity ==
  (response.op = "validatePlateNumber" /\ response.status = 200) =>
    /\ response.originalInput \in ValidExamples =>
          /\ response.isValid
          /\ response.errors = <<>>
          /\ validatePlateNumber(response.normalized).isValid
          /\ validatePlateNumber(response.normalized).errors = <<>>
          /\ response.category # "unknown"
    /\ response.originalInput = INVALID =>
          /\ ~response.isValid
          /\ ~validatePlateNumber(response.normalized).isValid

\* the military example was validated
MilitaryExampleValid ==
  /\ response.op = "validatePlateNumber"
  /\ response.status = 200
  /\ response.originalInput = <<"M","I","L","-","1","2","3">>
  /\ response.isValid

\* the characters of a plate that are not whitespace
nonBlank(plateNumber) == SelectSeq(plateNumber, LAMBDA c : c \notin Whitespace)

\* n letters of either case, three digits and two letters
isLegacyShape(c, n) ==
  /\ Len(c) = n + 5
  /\ \A k \in (1 .. n) \cup {n + 4, n + 5} : toUpperCase(c[k]) \in Letters
  /\ \A k \in (n + 1) .. (n + 3) : c[k] \in Digits

\* the letters in upper case with a hyphen before and after the digits
rehyphenated(c, n) ==
  [k \in 1 .. n |-> toUpperCase(c[k])] \o <<"-">> \o SubSeq(c, n + 1, n + 3) \o <<"-">>
    \o <<toUpperCase(c[n + 4]), toUpperCase(c[n + 5])>>

\* C17: a plate of 2 letters, 3 digits and 2 letters, in any case and with
\* any whitespace, normalizes to AA-999-AA, and one of 3 letters, 3 digits
\* and 2 letters to AAA-999-AA; ab123cd normalizes to AB-123-CD, which is
\* valid in the old format, with category private.
LegacyRehyphenation ==
  /\ response.op = "normalizePlateNumber" =>
        \A n \in {2, 3} :
          isLegacyShape(nonBlank(response.plateNumber), n) =>
            response.normalized = rehyphenated(nonBlank(response.plateNumber), n)
  /\ (response.op = "validatePlateNumber" /\ response.status = 200
         /\ response.originalInput = <<"a","b","1","2","3","c","d">>) =>
        /\ response.normalized = <<"A","B","-","1","2","3","-","C","D">>
        /\ response.isValid
        /\ response.format = 2
        /\ response.category = "private"

\* ab123cd was validated in the old format
LegacyPlateValidated ==
  /\ response.op = "validatePlateNumber"
  /\ response.status = 200
  /\ response.originalInput = <<"a","b","1","2","3","c","d">>
  /\ response.format = 2

\* C16: the similarity is (maxLen - editDistance) / maxLen of the normalized
\* plates and lies between 0 and 1; it is 1 for a plate compared with
\* itself and 0 when exactly one normalized plate is empty; isMatch says
\* that the similarity is at least the threshold.
SimilarityBounds ==
  response.op = "fuzzyMatchPlate" =>
    \E x \in {normalizePlateNumber(response.inputPlate)},
       y \in {normalizePlateNumber(response.targetPlate)},
       similarity \in {response.match.similarity} :
      \E maxLen \in {IF Len(x) >= Len(y) THEN Len(x) ELSE Len(y)} :
        /\ maxLen > 0 =>
              similarity.num * maxLen = (maxLen - editDistance(x, y)) * similarity.den
        /\ similarity.den > 0
        /\ 0 <= similarity.num
        /\ similarity.num <= similarity.den
        /\ response.targetPlate = response.inputPlate => similarity.num = similarity.den
        /\ (x = <<>>) # (y = <<>>) => similarity.num = 0
        /\ response.match.isMatch <=>
              similarity.num * 10 >= response.threshold * similarity.den

\* a plate three characters away from the target matched at exactly 0.7
MatchAtThreshold ==
  /\ response.op = "fuzzyMatchPlate"
  /\ response.inputPlate = <<"A","B","C","-","4","5","6","-","D","E">>
  /\ response.targetPlate = ABC123DE
  /\ response.threshold = 7
  /\ response.match.similarity = [num |-> 7, den |-> 10]
  /\ response.match.isMatch

\* C18: ABC-l23-DE matches ABC-123-DE at 0.7, and ABC-123-DE is among its
\* suggestions.
OcrScenario ==
  (/\ response.op = "fuzzyMatchPlate"
   /\ response.inputPlate = ABCl23DE
   /\ response.targetPlate = ABC123DE
   /\ response.threshold = 7) =>
    /\ response.match.isMatch
    /\ \E k \in 1 .. Len(response.match.suggestions) :
         response.match.suggestions[k] = ABC123DE

\* C20: the points of every vehicle are a natural number in every state
\* reached through createViolation and updateVehiclePoints; an adjustment sets
\* them to max(0, currentPoints + pointsToAdd), and for a plate that no vehicle
\* has it fails with "Vehicle not found" and changes nothing.
PointsNeverNegative ==
  /\ \A i \in Ids(vehicleOwners) : vehicleOwners[i].currentPoints \in Nat
  /\ \A plateNumber \in AdjustedPlates, pointsToAdd \in PointDeltas :
       \E id \in {findOneByPlate(vehicleOwners, PlateTable[plateNumber].normalized)} :
         IF id = 0
           THEN /\ ENABLED UpdateVehiclePoints(plateNumber, pointsToAdd)
                /\ ~ENABLED (/\ UpdateVehiclePoints(plateNumber, pointsToAdd)
                             /\ ~(/\ response' = Failed("updateVehiclePoints", 404, "Vehicle not found")
                                  /\ UNCHANGED <<database, inflight>>))
           ELSE \E sum \in {vehicleOwners[id].currentPoints + pointsToAdd} :
                  ~ENABLED (/\ UpdateVehiclePoints(plateNumber, pointsToAdd)
                            /\ vehicleOwners'[id].currentPoints # (IF sum < 0 THEN 0 ELSE sum))

\* an adjustment has taken the points of a ticketed vehicle down to 0
PointsClampedAtZero ==
  /\ response = [op |-> "updateVehiclePoints", status |-> 200]
  /\ violations # <<>>
  /\ vehicleOwners[1].currentPoints = 0

\* the owner record createViolation makes for a plate that is not on file
placeholderOwner(plateNumber) ==
  [plateNumber |-> PlateTable[plateNumber].normalized, fullName |-> "Unknown Owner",
   currentPoints |-> 0, status |-> "active"]

\* C21: a createViolation request with valid types for a plate that the
\* lookup resolves to no vehicle adds an owner with the name "Unknown Owner",
\* 0 points and status active for that plate and goes on; its commit
\* attaches every new violation to that owner and answers 201.
PlaceholderCreated ==
  /\ \A plateNumber \in RawPlates, violationTypeIds \in TypeIdLists :
       (/\ typesAccepted(violationTypeIds)
        /\ lookupByPlateNumber(vehicleOwners, plateNumber).vehicle = 0
        /\ Len(vehicleOwners) < MaxVehicles
        /\ BagCardinality(inflight) < MaxInflight) =>
         /\ ENABLED CreateViolationStart(plateNumber, violationTypeIds)
         /\ ~ENABLED (/\ CreateViolationStart(plateNumber, violationTypeIds)
                      /\ ~(/\ vehicleOwners' = Append(vehicleOwners, placeholderOwner(plateNumber))
                           /\ response' = Running("createViolation")))
  /\ \A ctx \in BagToSet(inflight) :
       (ctx.op = "createViolation" /\ ctx.created) =>
         ~ENABLED (/\ CreateViolationCommit(ctx)
                   /\ ~(/\ response'.status = 201
                        /\ Len(violations') = Len(violations) + Len(ctx.types)
                        /\ \A v \in (Len(violations) + 1) .. Len(violations') :
                             /\ violations'[v].vehicleOwnerId = ctx.vehicleOwner.id
                             /\ violations'[v].plateNumber = ctx.vehicleOwner.plateNumber))

\* the similarity of the plate looked up to the stored plate of vehicle i
similarityTo(normalized, i) == MatchTable[normalized][vehicleOwners[i].plateNumber].similarity

\* the vehicles whose stored plate is at similarity 0.6 or more
candidates(normalized) ==
  {i \in Ids(vehicleOwners) : FracGeq(similarityTo(normalized, i), [num |-> 6, den |-> 10])}

\* C22: a lookup returns the vehicle whose stored plate is the normalized
\* input, with no suggestions, when there is one; with none and a valid plate
\* it returns no vehicle and no suggestions; with none and a plate that is not
\* valid it returns the vehicle of highest similarity among those at 0.6 or
\* more (none when there is no such vehicle), with the plates of at most five
\* of them in non-increasing order of similarity.
LookupResolutionOrder ==
  (response.op = "lookupByPlateNumber" /\ response.status = 200) =>
    \E normalized \in {PlateTable[response.searchedPlate].normalized},
       suggestions \in {response.suggestions} :
      \E exact \in {{i \in Ids(vehicleOwners) : vehicleOwners[i].plateNumber = normalized}},
         close \in {candidates(normalized)} :
        IF exact # {}
          THEN response.vehicle \in exact /\ suggestions = <<>>
        ELSE IF PlateTable[response.searchedPlate].validation.isValid \/ close = {}
          THEN response.vehicle = 0 /\ suggestions = <<>>
        ELSE /\ response.vehicle \in close
             /\ \A i \in Ids(vehicleOwners) :
                  FracGeq(similarityTo(normalized, response.vehicle), similarityTo(normalized, i))
             /\ Len(suggestions) = (IF Cardinality(close) < 5 THEN Cardinality(close) ELSE 5)
             /\ suggestions[1] = vehicleOwners[response.vehicle].plateNumber
             /\ \A k \in 1 .. Len(suggestions) :
                  \E i \in close : vehicleOwners[i].plateNumber = suggestions[k]
             /\ \A k \in 1 .. (Len(suggestions) - 1) :
                  FracGeq(MatchTable[normalized][suggestions[k]].similarity,
                          MatchTable[normalized][suggestions[k + 1]].similarity)
             /\ \A i \in close :
                  (\A k \in 1 .. Len(suggestions) : suggestions[k] # vehicleOwners[i].plateNumber)
                    => FracGeq(MatchTable[normalized][suggestions[Len(suggestions)]].similarity,
                               similarityTo(normalized, i))

\* a misread plate was resolved to the best of six candidates, and five were
\* suggested
LookupTruncated ==
  /\ response.op = "lookupByPlateNumber"
  /\ response.searchedPlate = ABCl23DE
  /\ Cardinality(candidates(PlateTable[ABCl23DE].normalized)) = 6
  /\ Len(response.suggestions) = 5
  /\ response.vehicle # 0

\* the formats whose pattern the normalized plate matches
matchingFormats(normalized) ==
  {k \in 1 .. Len(NIGERIAN_PLATE_FORMATS) : test(NIGERIAN_PLATE_FORMATS[k].pattern, normalized)}

\* letters, three digits and letters, joined by hyphens: the shape of the
\* current and of the old format
threePartShape(normalized) ==
  test(NIGERIAN_PLATE_FORMATS[1].pattern, normalized)
    \/ test(NIGERIAN_PLATE_FORMATS[2].pattern, normalized)

\* the plate starts with two letters that are not in the table of state codes
unknownStateCode(normalized) ==
  /\ Len(normalized) >= 2
  /\ normalized[1] \in Letters
  /\ normalized[2] \in Letters
  /\ <<normalized[1], normalized[2]>> \notin NIGERIAN_STATE_CODES

\* C23: a valid plate is reported with the first format, in the order of the
\* table, that its normalized form matches; a plate of the three-part shape
\* with an unknown state code gets the error "Invalid state code"; a plate
\* that matches a format is rejected for its two leading letters only when it
\* has the three-part shape, so not when it matches the government,
\* diplomatic or military format.
OrderedFormatMatching ==
  (response.op = "validatePlateNumber" /\ response.status = 200) =>
    \E matching \in {matchingFormats(response.normalized)} :
      /\ response.isValid =>
            /\ response.format \in matching
            /\ \A k \in matching : response.format <= k
      /\ (threePartShape(response.normalized) /\ unknownStateCode(response.normalized)) =>
            /\ ~response.isValid
            /\ \E k \in 1 .. Len(response.errors) : response.errors[k] = "Invalid state code"
      /\ (matching # {} /\ ~threePartShape(response.normalized)) => response.isValid

\* the example of each format with the category the table declares for it
ExampleCategories ==
  {<<<<"A","B","C","-","1","2","3","-","D","E">>, "private">>,
   <<<<"A","B","-","1","2","3","-","C","D">>, "private">>,
   <<<<"C","O","M","-","1","2","3","-","X","Y">>, "commercial">>,
   <<<<"A","B","U","J","A","-","1","2","3">>, "government">>,
   <<<<"C","D","-","1","2","3","-","A">>, "diplomatic">>,
   <<<<"M","I","L","-","1","2","3">>, "military">>}

\* the categories getPlateCategory returns for the plates of PlateInputs
ReturnedCategories == {getPlateCategory(plateNumber) : plateNumber \in PlateInputs}

\* C24: getPlateCategory returns the category of the format that validated
\* the plate and "unknown" for a plate that is not valid; the example of each
\* format is given the category of that format, and each of the categories
\* private, commercial, government, diplomatic and military is returned for
\* some plate.
CategoryDerivation ==
  /\ response.op = "getPlateCategory" =>
        \E validation \in {validatePlateNumber(response.plateNumber)} :
          /\ validation.isValid =>
                response.category = NIGERIAN_PLATE_FORMATS[validation.format].category
          /\ ~validation.isValid => response.category = "unknown"
          /\ \A example \in ExampleCategories :
                response.plateNumber = example[1] => response.category = example[2]
  /\ {"private", "commercial", "government", "diplomatic", "military"}
        \subseteq ReturnedCategories

\* the groups of characters that are taken for one another
ConfusableGroups ==
  {{"0","O","D","Q"}, {"I","1","L","T"}, {"5","S","G"},
   {"B","8","R"}, {"6","G","C"}, {"2","Z","R"}}

\* the positions where two plates of the same length differ
differences(a, b) == {k \in 1 .. Len(a) : a[k] # b[k]}

\* C25: fuzzyMatchPlate returns suggestions only when the similarity is
\* greater than the threshold minus 0.2; there are at most five, all
\* different, each as long as the normalized input and different from it at
\* one position, where the two characters are in one confusable group.
SuggestionShape ==
  response.op = "fuzzyMatchPlate" =>
    \E normalizedInput \in {normalizePlateNumber(response.inputPlate)},
       suggestions \in {response.match.suggestions},
       similarity \in {response.match.similarity} :
      /\ suggestions # <<>> =>
            similarity.num * 10 > (response.threshold - 2) * similarity.den
      /\ Len(suggestions) <= 5
      /\ \A j, k \in 1 .. Len(suggestions) : j # k => suggestions[j] # suggestions[k]
      /\ \A k \in 1 .. Len(suggestions) :
            /\ Len(suggestions[k]) = Len(normalizedInput)
            /\ Cardinality(differences(normalizedInput, suggestions[k])) = 1
            /\ \A d \in differences(normalizedInput, suggestions[k]) :
                  \E group \in ConfusableGroups :
                    normalizedInput[d] \in group /\ suggestions[k][d] \in group

\* the note field after the update keeps the notes before it and ends with
\* an entry for the change from one status to the other
auditAppended(before, after, from, to) ==
  /\ Len(after) = Len(before) + 1
  /\ SubSeq(after, 1, Len(before)) = before
  /\ after[Len(after)].from = from
  /\ after[Len(after)].to = to

\* C26: an updateViolationStatus request for a stored violation, with or
\* without notes, sets the status, appends an entry with the prior and the
\* new status to the notes and leaves the earlier notes as they were, and
\* sets paidDate exactly when the new status is paid; for an unknown id
\* it fails with "Violation not found" and changes nothing.
StatusAuditTrail ==
  \A id \in 1 .. 2, request \in StatusRequests :
    IF id \notin Ids(violations)
      THEN /\ ENABLED UpdateViolationStatus(id, request[1], request[2])
           /\ ~ENABLED (/\ UpdateViolationStatus(id, request[1], request[2])
                        /\ ~(/\ response' = Failed("updateViolationStatus", 404, "Violation not found")
                             /\ UNCHANGED <<database, inflight>>))
      ELSE ~ENABLED (/\ UpdateViolationStatus(id, request[1], request[2])
                     /\ ~(/\ response'.status = 200
                          /\ violations'[id].status = request[1]
                          /\ auditAppended(violations[id].officerNotes,
                                           violations'[id].officerNotes,
                                           violations[id].status, request[1])
                          /\ violations'[id].paidDate =
                               (IF request[1] = "paid" THEN "date" ELSE violations[id].paidDate)))

\* C27: a violation has at most one payment in status completed.
NoDoubleCollection ==
  \A v \in Ids(violations) :
    Cardinality({i \in Ids(payments) :
                   payments[i].violationId = v /\ payments[i].status = "completed"}) <= 1

\* C28: a verification turns a violation to paid only when the violation is
\* pending or partially paid at that time; a violation that has been
\* contested, dismissed, sent to court or paid since the initiation is left
\* as it is.
VerifyPaysOnlyPayable ==
  [][response'.op = "verifyPayment" =>
       \A v \in Ids(violations) :
         violations'[v] # violations[v] => violations[v].status \in Payable]_vars

\* C29: the owner that createViolation resolves for a plate has the
\* normalized plate as its stored plate, and every violation of the commit
\* carries the plate and the id of that owner.
AttachedToEnteredPlate ==
  /\ \A plateNumber \in RawPlates, violationTypeIds \in TypeIdLists :
       ~ENABLED (/\ CreateViolationStart(plateNumber, violationTypeIds)
                 /\ \E ctx \in BagToSet(inflight') :
                      /\ CopiesIn(ctx, inflight') > CopiesIn(ctx, inflight)
                      /\ ctx.vehicleOwner.plateNumber # PlateTable[plateNumber].normalized)
  /\ \A ctx \in BagToSet(inflight) :
       ctx.op = "createViolation" =>
         ~ENABLED (/\ CreateViolationCommit(ctx)
                   /\ ~(\A v \in (Len(violations) + 1) .. Len(violations') :
                          /\ violations'[v].plateNumber = ctx.vehicleOwner.plateNumber
                          /\ violations'[v].vehicleOwnerId = ctx.vehicleOwner.id
                          /\ vehicleOwners'[ctx.vehicleOwner.id].plateNumber
                               = ctx.vehicleOwner.plateNumber))

\* C30: the self-service query returns for every plate the violations and
\* the summary it returns for the normalized plate.
PlateFormatInsensitive ==
  \A plateNumber \in Plates :
    ~ENABLED (/\ GetViolationsByPlate(plateNumber)
              /\ response'.data # getViolationsByPlateNumber(PlateTable[plateNumber].normalized))

=============================================================================
